---- MODULE Spec2Model ----
(***************************************************************************)
(* Model of the Polly API client helpers (client.py): cast_vote,           *)
(* get_poll_results and the shared _handle_response.                       *)
(*                                                                         *)
(* A call is two steps: the caller invokes the function, which validates   *)
(* its arguments and hands one request to the HTTP library; the library    *)
(* then either delivers a response (status code and body text) or raises   *)
(* a transport exception, and the function turns that into its outcome.    *)
(***************************************************************************)
EXTENDS Integers, Sequences, FiniteSets

VARIABLES
    pc,             \* "idle" (no call yet), "sent" (blocked in requests.post/get), "done"
    op,             \* "none", "cast_vote" or "get_poll_results"
    args,           \* the keyword arguments of the call
    request,        \* the request handed to the HTTP library, NoRequest before
    requests_sent,  \* number of requests.post/requests.get calls made by this call
    response,       \* the Response object received, NoResponse before / on failure
    outcome         \* what reaches the caller: a return value or an exception

vars == <<pc, op, args, request, requests_sent, response, outcome>>

----------------------------------------------------------------------------
(* Bounds of the model *)

\* identifiers range over None and -MaxId..MaxId
MaxId == 1
\* base URLs are strings of at most MaxUrlLen characters
MaxUrlLen == 3

----------------------------------------------------------------------------
(* Python values used as arguments: None, int, str (a sequence of characters) *)

PyNone == [t |-> "NoneType", n |-> 0, s |-> <<>>]
PyInt(i) == [t |-> "int", n |-> i, s |-> <<>>]
PyStr(chars) == [t |-> "str", n |-> 0, s |-> chars]

\* bool(x), as used by "if not x"
Truthy(x) ==
    CASE x.t = "NoneType" -> FALSE
      [] x.t = "int" -> x.n # 0
      [] x.t = "str" -> x.s # <<>>

Digit(d) ==
    CASE d = 0 -> "0" [] d = 1 -> "1" [] d = 2 -> "2" [] d = 3 -> "3" [] d = 4 -> "4"
      [] d = 5 -> "5" [] d = 6 -> "6" [] d = 7 -> "7" [] d = 8 -> "8" [] d = 9 -> "9"

RECURSIVE NatToStr(_)
NatToStr(i) == IF i < 10 THEN <<Digit(i)>> ELSE NatToStr(i \div 10) \o <<Digit(i % 10)>>

\* str(i) for an int, as the f-string formats it
IntToStr(i) == IF i < 0 THEN <<"-">> \o NatToStr(-i) ELSE NatToStr(i)

\* the text an f-string substitutes for {x}
Format(x) ==
    CASE x.t = "NoneType" -> <<"N", "o", "n", "e">>
      [] x.t = "int" -> IntToStr(x.n)
      [] x.t = "str" -> x.s

\* (faulty variant of rstrip: only one trailing slash removed)
rstrip_one_faulty(s) ==
    IF s # <<>> /\ s[Len(s)] = "/" THEN SubSeq(s, 1, Len(s) - 1) ELSE s

\* str.rstrip('/'): every trailing slash removed
RECURSIVE rstrip(_)
rstrip(s) ==
    IF s # <<>> /\ s[Len(s)] = "/" THEN rstrip(SubSeq(s, 1, Len(s) - 1)) ELSE s

----------------------------------------------------------------------------
(* JSON values as Python objects, and the JSON text of a body as tokens *)

JNull == [t |-> "null", n |-> 0, s |-> "", elems |-> <<>>, members |-> <<>>]
JBool(b) == [t |-> "bool", n |-> IF b THEN 1 ELSE 0, s |-> "", elems |-> <<>>, members |-> <<>>]
JNum(i) == [t |-> "num", n |-> i, s |-> "", elems |-> <<>>, members |-> <<>>]
JStr(str) == [t |-> "str", n |-> 0, s |-> str, elems |-> <<>>, members |-> <<>>]
JArr(es) == [t |-> "arr", n |-> 0, s |-> "", elems |-> es, members |-> <<>>]
\* a dict: its items in insertion order, each [k |-> key, v |-> value]
JObj(ms) == [t |-> "obj", n |-> 0, s |-> "", elems |-> <<>>, members |-> ms]

\* bool(v) of a parsed JSON value
JTruthy(v) ==
    CASE v.t = "null" -> FALSE
      [] v.t = "bool" -> v.n = 1
      [] v.t = "num" -> v.n # 0
      [] v.t = "str" -> v.s # ""
      [] v.t = "arr" -> v.elems # <<>>
      [] v.t = "obj" -> v.members # <<>>

\* tokens of a JSON text
P(c) == [k |-> "punct", s |-> c, n |-> 0]
TStr(str) == [k |-> "string", s |-> str, n |-> 0]
TNum(i) == [k |-> "number", s |-> "", n |-> i]
TWord(w) == [k |-> "word", s |-> w, n |-> 0]

\* dict[key] = value: replaces the value of an existing key, appends a new one
RECURSIVE DictSet(_, _, _)
DictSet(ms, key, value) ==
    IF ms = <<>> THEN <<[k |-> key, v |-> value]>>
    ELSE IF Head(ms).k = key THEN <<[k |-> key, v |-> value]>> \o Tail(ms)
    ELSE <<Head(ms)>> \o DictSet(Tail(ms), key, value)

HasKey(ms, key) == \E i \in 1..Len(ms) : ms[i].k = key

\* dict.get(key): the value, or None when the key is absent
DictGet(ms, key) ==
    IF HasKey(ms, key) THEN ms[CHOOSE i \in 1..Len(ms) : ms[i].k = key].v ELSE JNull

ParseFail == [ok |-> FALSE, value |-> JNull, next |-> 0]
ParseOk(v, i) == [ok |-> TRUE, value |-> v, next |-> i]

\* recursive-descent JSON parser over tokens: the value starting at toks[i]
RECURSIVE ParseValue(_, _), ParseElems(_, _, _), ParseMembers(_, _, _)
ParseValue(toks, i) ==
    IF i > Len(toks) THEN ParseFail
    ELSE LET tk == toks[i] IN
      CASE tk.k = "string" -> ParseOk(JStr(tk.s), i + 1)
        [] tk.k = "number" -> ParseOk(JNum(tk.n), i + 1)
        [] tk.k = "word" ->
             (CASE tk.s = "null" -> ParseOk(JNull, i + 1)
                [] tk.s = "true" -> ParseOk(JBool(TRUE), i + 1)
                [] tk.s = "false" -> ParseOk(JBool(FALSE), i + 1)
                [] OTHER -> ParseFail)
        [] tk.k = "punct" ->
             (CASE tk.s = "[" ->
                     IF i + 1 <= Len(toks) /\ toks[i + 1] = P("]")
                     THEN ParseOk(JArr(<<>>), i + 2)
                     ELSE ParseElems(toks, i + 1, <<>>)
                [] tk.s = "{" ->
                     IF i + 1 <= Len(toks) /\ toks[i + 1] = P("}")
                     THEN ParseOk(JObj(<<>>), i + 2)
                     ELSE ParseMembers(toks, i + 1, <<>>)
                [] OTHER -> ParseFail)

\* the elements of an array after "[" or ",", up to and including "]"
ParseElems(toks, i, acc) ==
    LET e == ParseValue(toks, i) IN
    IF ~e.ok \/ e.next > Len(toks) THEN ParseFail
    ELSE IF toks[e.next] = P("]") THEN ParseOk(JArr(Append(acc, e.value)), e.next + 1)
    ELSE IF toks[e.next] = P(",") THEN ParseElems(toks, e.next + 1, Append(acc, e.value))
    ELSE ParseFail

\* the members of an object after "{" or ",", up to and including "}"
ParseMembers(toks, i, acc) ==
    IF i + 1 > Len(toks) \/ toks[i].k # "string" \/ toks[i + 1] # P(":") THEN ParseFail
    ELSE LET e == ParseValue(toks, i + 2)
             acc2 == DictSet(acc, toks[i].s, e.value)
         IN
         IF ~e.ok \/ e.next > Len(toks) THEN ParseFail
         ELSE IF toks[e.next] = P("}") THEN ParseOk(JObj(acc2), e.next + 1)
         ELSE IF toks[e.next] = P(",") THEN ParseMembers(toks, e.next + 1, acc2)
         ELSE ParseFail

\* response.json(): the parsed body; ok = FALSE when it raises (a ValueError)
json(resp) ==
    LET r == ParseValue(resp.body, 1) IN
    IF r.ok /\ r.next = Len(resp.body) + 1 THEN [ok |-> TRUE, value |-> r.value]
    ELSE [ok |-> FALSE, value |-> JNull]

----------------------------------------------------------------------------
(* Exceptions and their messages *)

NoMsg == [src |-> "none", text |-> "", detail |-> JNull, status |-> 0, cls |-> "", url |-> <<>>]
\* a message given as a string literal in the code
Literal(text) == [NoMsg EXCEPT !.src = "literal", !.text = text]
\* the server's "detail" value used as the message
DetailMsg(v) == [NoMsg EXCEPT !.src = "detail", !.detail = v]
\* str(HTTPError): "<status> <Client|Server> Error: <reason> for url: <url>"
HTTPErrorMsg(status, cls, url) ==
    [NoMsg EXCEPT !.src = "http_error", !.status = status, !.cls = cls, !.url = url]

NoOutcome == [kind |-> "none", value |-> JNull, msg |-> NoMsg]
Return(v) == [kind |-> "return", value |-> v, msg |-> NoMsg]
Raise(exc, msg) == [kind |-> exc, value |-> JNull, msg |-> msg]

MsgPollId == "Parameter 'poll_id' is required and must be a positive integer"
MsgOptionId == "Parameter 'option_id' is required and must be a positive integer"
MsgToken == "Parameter 'token' (JWT) is required"
MsgUnauthorized == "Unauthorized: invalid or expired token"
MsgVoteNotFound == "Poll or option not found"
MsgPollNotFound == "Poll not found"
MsgNoJSON == "Response did not contain valid JSON data"

----------------------------------------------------------------------------
(* Requests and responses *)

NoRequest == [method |-> "", url |-> <<>>, has_json |-> FALSE, json |-> JNull,
              headers |-> <<>>, timeout |-> 0]
NoResponse == [status_code |-> 0, body |-> <<>>, url |-> <<>>]

\* the timeout, in seconds, passed to requests.post and requests.get
TimeoutSeconds == 10

\* Response.raise_for_status(): raises HTTPError for 400 <= status < 600 only
raise_for_status(resp) ==
    IF 400 <= resp.status_code /\ resp.status_code < 500
    THEN [raised |-> TRUE, msg |-> HTTPErrorMsg(resp.status_code, "Client Error", resp.url)]
    ELSE IF 500 <= resp.status_code /\ resp.status_code < 600
    THEN [raised |-> TRUE, msg |-> HTTPErrorMsg(resp.status_code, "Server Error", resp.url)]
    ELSE [raised |-> FALSE, msg |-> NoMsg]

\* msg = response.json().get("detail"), None when anything in it raises
error_detail(resp) ==
    LET j == json(resp) IN
    IF j.ok /\ j.value.t = "obj" THEN DictGet(j.value.members, "detail") ELSE JNull

\* (faulty variant of _handle_response: the error branch ignores the server's detail)
handle_response_no_detail_faulty(resp) ==
    LET exc == raise_for_status(resp) IN
    IF exc.raised THEN Raise("ApiClientError", exc.msg)
    ELSE IF json(resp).ok THEN Return(json(resp).value)
    ELSE Raise("ApiClientError", Literal(MsgNoJSON))

\* (faulty variant of _handle_response: a success body that is not JSON is returned as None)
handle_response_none_faulty(resp) ==
    LET exc == raise_for_status(resp)
        msg == error_detail(resp)
    IN
    IF exc.raised
    THEN Raise("ApiClientError", IF JTruthy(msg) THEN DetailMsg(msg) ELSE exc.msg)
    ELSE Return(json(resp).value)

\* (faulty variant of _handle_response: only the "detail" member of a success body is returned)
handle_response_unwrap_faulty(resp) ==
    LET exc == raise_for_status(resp)
        msg == error_detail(resp)
    IN
    IF exc.raised
    THEN Raise("ApiClientError", IF JTruthy(msg) THEN DetailMsg(msg) ELSE exc.msg)
    ELSE IF json(resp).ok
    THEN Return(IF json(resp).value.t = "obj" /\ HasKey(json(resp).value.members, "detail")
                THEN DictGet(json(resp).value.members, "detail")
                ELSE json(resp).value)
    ELSE Raise("ApiClientError", Literal(MsgNoJSON))

_handle_response(resp) ==
    LET exc == raise_for_status(resp)
        msg == error_detail(resp)
    IN
    IF exc.raised
    THEN Raise("ApiClientError", IF JTruthy(msg) THEN DetailMsg(msg) ELSE exc.msg)
    ELSE IF json(resp).ok THEN Return(json(resp).value)
    ELSE Raise("ApiClientError", Literal(MsgNoJSON))

----------------------------------------------------------------------------
(* cast_vote *)

\* (faulty variant of cast_vote_validate: the token is checked first)
cast_vote_validate_token_first_faulty(a) ==
    IF ~Truthy(a.token) THEN Raise("ValueError", Literal(MsgToken))
    ELSE IF ~Truthy(a.poll_id) THEN Raise("ValueError", Literal(MsgPollId))
    ELSE IF ~Truthy(a.option_id) THEN Raise("ValueError", Literal(MsgOptionId))
    ELSE NoOutcome

\* client-side validation: the ValueError raised, NoOutcome when all checks pass
cast_vote_validate(a) ==
    IF ~Truthy(a.poll_id) THEN Raise("ValueError", Literal(MsgPollId))
    ELSE IF ~Truthy(a.option_id) THEN Raise("ValueError", Literal(MsgOptionId))
    ELSE IF ~Truthy(a.token) THEN Raise("ValueError", Literal(MsgToken))
    ELSE NoOutcome

\* the arguments of requests.post
cast_vote_request(a) ==
    [method |-> "POST",
     url |-> rstrip(a.base_url.s) \o <<"/polls/">> \o Format(a.poll_id) \o <<"/vote">>,
     has_json |-> TRUE,
     json |-> JObj(<<[k |-> "option_id", v |-> JNum(a.option_id.n)]>>),
     headers |-> << [name |-> "Authorization", value |-> <<"Bearer ">> \o Format(a.token)],
                    [name |-> "Content-Type", value |-> <<"application/json">>],
                    [name |-> "Accept", value |-> <<"application/json">>] >>,
     timeout |-> TimeoutSeconds]

\* (faulty variant of cast_vote_result: 401 and 404 are left to _handle_response)
cast_vote_result_generic_faulty(resp) == _handle_response(resp)

\* what cast_vote does with the response
cast_vote_result(resp) ==
    IF resp.status_code = 401 THEN Raise("ApiClientError", Literal(MsgUnauthorized))
    ELSE IF resp.status_code = 404 THEN Raise("ApiClientError", Literal(MsgVoteNotFound))
    ELSE _handle_response(resp)

----------------------------------------------------------------------------
(* get_poll_results *)

get_poll_results_validate(a) ==
    IF ~Truthy(a.poll_id) THEN Raise("ValueError", Literal(MsgPollId))
    ELSE IF ~Truthy(a.token) THEN Raise("ValueError", Literal(MsgToken))
    ELSE NoOutcome

\* the arguments of requests.get
get_poll_results_request(a) ==
    [method |-> "GET",
     url |-> rstrip(a.base_url.s) \o <<"/polls/">> \o Format(a.poll_id) \o <<"/results">>,
     has_json |-> FALSE,
     json |-> JNull,
     headers |-> << [name |-> "Authorization", value |-> <<"Bearer ">> \o Format(a.token)],
                    [name |-> "Accept", value |-> <<"application/json">>] >>,
     timeout |-> TimeoutSeconds]

\* what get_poll_results does with the response
get_poll_results_result(resp) ==
    IF resp.status_code = 401 THEN Raise("ApiClientError", Literal(MsgUnauthorized))
    ELSE IF resp.status_code = 404 THEN Raise("ApiClientError", Literal(MsgPollNotFound))
    ELSE _handle_response(resp)

----------------------------------------------------------------------------
(* The callers' inputs and the server's answers *)

\* poll_id / option_id values a caller passes: None or an int
Ids == {PyNone} \cup {PyInt(i) : i \in (-MaxId)..MaxId}

\* token values a caller passes: None, "" or a JWT
Tokens == {PyNone, PyStr(<<>>), PyStr(<<"t", "k">>)}

\* base_url values: "h" stands for a character other than "/"; a base URL starts
\* with its scheme, so never with a slash
BaseUrls ==
    {PyStr(u) : u \in {s \in UNION {[1..n -> {"h", "/"}] : n \in 1..MaxUrlLen} : s[1] = "h"}}

\* status codes a server can answer with
StatusCodes == {101, 200, 204, 299, 300, 399, 400, 401, 404, 422, 499, 500, 599, 600}

\* response bodies, as the tokens of their text
Bodies ==
    { <<>>,
      <<TWord("Gateway")>>,
      <<P("{")>>,
      <<P("{"), TStr("detail"), TStr("Bad"), P("}")>>,
      <<P("["), TNum(1), P(","), P("]")>>,
      <<P("{"), P("}"), P("}")>>,
      <<TWord("null")>>,
      <<TWord("true")>>,
      <<TNum(3)>>,
      <<TStr("ok")>>,
      <<P("["), P("]")>>,
      <<P("["), TNum(1), P(","), TStr("a"), P("]")>>,
      <<P("{"), P("}")>>,
      <<P("{"), TStr("detail"), P(":"), TStr("Already voted"), P("}")>>,
      <<P("{"), TStr("detail"), P(":"), TStr(""), P("}")>>,
      <<P("{"), TStr("detail"), P(":"), TWord("null"), P("}")>>,
      <<P("{"), TStr("detail"), P(":"), TNum(0), P("}")>>,
      <<P("{"), TStr("detail"), P(":"), P("["), P("]"), P("}")>>,
      <<P("{"), TStr("detail"), P(":"),
           P("["), P("{"), TStr("msg"), P(":"), TStr("bad id"), P("}"), P("]"), P("}")>>,
      <<P("{"), TStr("id"), P(":"), TNum(7), P(","), TStr("option_id"), P(":"), TNum(2), P("}")>>,
      <<P("{"), TStr("id"), P(":"), TNum(7), P(","), TStr("detail"), P(":"), TStr("x"), P("}")>> }

\* exceptions requests.post / requests.get raise when no response arrives
TransportErrors == {"ConnectionError", "Timeout"}

----------------------------------------------------------------------------
(* State machine *)

Init ==
    /\ pc = "idle"
    /\ op = "none"
    /\ args = [poll_id |-> PyNone, option_id |-> PyNone, token |-> PyNone, base_url |-> PyStr(<<>>)]
    /\ request = NoRequest
    /\ requests_sent = 0
    /\ response = NoResponse
    /\ outcome = NoOutcome

\* the caller invokes cast_vote: validation, then the request is handed to requests.post
cast_vote(poll_id, option_id, token, base_url) ==
    LET a == [poll_id |-> poll_id, option_id |-> option_id, token |-> token,
              base_url |-> base_url]
    IN
    /\ pc = "idle"
    /\ op' = "cast_vote"
    /\ args' = a
    /\ IF cast_vote_validate(a) # NoOutcome
       THEN /\ outcome' = cast_vote_validate(a)
            /\ pc' = "done"
            /\ UNCHANGED <<request, requests_sent>>
       ELSE /\ request' = cast_vote_request(a)
            /\ requests_sent' = requests_sent + 1
            /\ pc' = "sent"
            /\ UNCHANGED outcome
    /\ UNCHANGED response

\* requests.post returns a response: cast_vote maps it to its outcome
cast_vote_response(status_code, body) ==
    /\ pc = "sent"
    /\ op = "cast_vote"
    /\ response' = [status_code |-> status_code, body |-> body, url |-> request.url]
    /\ outcome' = cast_vote_result(response')
    /\ pc' = "done"
    /\ UNCHANGED <<op, args, request, requests_sent>>

\* requests.post raises: nothing in cast_vote catches it
cast_vote_transport_error(exc) ==
    /\ pc = "sent"
    /\ op = "cast_vote"
    /\ outcome' = Raise(exc, NoMsg)
    /\ pc' = "done"
    /\ UNCHANGED <<op, args, request, requests_sent, response>>

\* the caller invokes get_poll_results
get_poll_results(poll_id, token, base_url) ==
    LET a == [poll_id |-> poll_id, option_id |-> PyNone, token |-> token,
              base_url |-> base_url]
    IN
    /\ pc = "idle"
    /\ op' = "get_poll_results"
    /\ args' = a
    /\ IF get_poll_results_validate(a) # NoOutcome
       THEN /\ outcome' = get_poll_results_validate(a)
            /\ pc' = "done"
            /\ UNCHANGED <<request, requests_sent>>
       ELSE /\ request' = get_poll_results_request(a)
            /\ requests_sent' = requests_sent + 1
            /\ pc' = "sent"
            /\ UNCHANGED outcome
    /\ UNCHANGED response

\* (faulty variant of get_poll_results_response: a 5xx answer is retried once)
get_poll_results_response_retry_faulty(status_code, body) ==
    /\ pc = "sent"
    /\ op = "get_poll_results"
    /\ response' = [status_code |-> status_code, body |-> body, url |-> request.url]
    /\ IF status_code >= 500 /\ requests_sent < 2
       THEN /\ requests_sent' = requests_sent + 1
            /\ UNCHANGED <<pc, outcome>>
       ELSE /\ outcome' = get_poll_results_result(response')
            /\ pc' = "done"
            /\ UNCHANGED requests_sent
    /\ UNCHANGED <<op, args, request>>

\* requests.get returns a response: get_poll_results maps it to its outcome
get_poll_results_response(status_code, body) ==
    /\ pc = "sent"
    /\ op = "get_poll_results"
    /\ response' = [status_code |-> status_code, body |-> body, url |-> request.url]
    /\ outcome' = get_poll_results_result(response')
    /\ pc' = "done"
    /\ UNCHANGED <<op, args, request, requests_sent>>

\* requests.get raises: nothing in get_poll_results catches it
get_poll_results_transport_error(exc) ==
    /\ pc = "sent"
    /\ op = "get_poll_results"
    /\ outcome' = Raise(exc, NoMsg)
    /\ pc' = "done"
    /\ UNCHANGED <<op, args, request, requests_sent, response>>

Next ==
    \/ \E p \in Ids, o \in Ids, t \in Tokens, b \in BaseUrls : cast_vote(p, o, t, b)
    \/ \E c \in StatusCodes, b \in Bodies : cast_vote_response(c, b)
    \/ \E e \in TransportErrors : cast_vote_transport_error(e)
    \/ \E p \in Ids, t \in Tokens, b \in BaseUrls : get_poll_results(p, t, b)
    \/ \E c \in StatusCodes, b \in Bodies : get_poll_results_response(c, b)
    \/ \E e \in TransportErrors : get_poll_results_transport_error(e)

Spec == Init /\ [][Next]_vars

----------------------------------------------------------------------------
(* Properties *)

\* the call has ended after a response was received
Responded == pc = "done" /\ response # NoResponse

Is2xx(c) == 200 <= c /\ c <= 299

\* the JSON text of a value (json.dumps without whitespace), as tokens
RECURSIVE Serialize(_), SerializeElems(_), SerializeMembers(_)
Serialize(v) ==
    CASE v.t = "null" -> <<TWord("null")>>
      [] v.t = "bool" -> <<TWord(IF v.n = 1 THEN "true" ELSE "false")>>
      [] v.t = "num" -> <<TNum(v.n)>>
      [] v.t = "str" -> <<TStr(v.s)>>
      [] v.t = "arr" -> <<P("[")>> \o SerializeElems(v.elems) \o <<P("]")>>
      [] v.t = "obj" -> <<P("{")>> \o SerializeMembers(v.members) \o <<P("}")>>
SerializeElems(es) ==
    IF es = <<>> THEN <<>>
    ELSE Serialize(Head(es))
         \o (IF Tail(es) = <<>> THEN <<>> ELSE <<P(",")>> \o SerializeElems(Tail(es)))
SerializeMembers(ms) ==
    IF ms = <<>> THEN <<>>
    ELSE <<TStr(Head(ms).k), P(":")>> \o Serialize(Head(ms).v)
         \o (IF Tail(ms) = <<>> THEN <<>> ELSE <<P(",")>> \o SerializeMembers(Tail(ms)))

\* the value of a header of the request, <<>> when absent
Header(req, name) ==
    IF \E i \in 1..Len(req.headers) : req.headers[i].name = name
    THEN req.headers[CHOOSE i \in 1..Len(req.headers) : req.headers[i].name = name].value
    ELSE <<>>

\* C1: a 401 or 404 response makes both operations raise ApiClientError with
\* their fixed message, whatever the body is; nothing is returned.
C1_FixedMessageFor401And404 ==
    Responded /\ response.status_code \in {401, 404} =>
        /\ outcome.kind = "ApiClientError"
        /\ outcome.value = JNull
        /\ outcome.msg.src = "literal"
        /\ outcome.msg.text =
             IF response.status_code = 401 THEN "Unauthorized: invalid or expired token"
             ELSE IF op = "cast_vote" THEN "Poll or option not found"
             ELSE "Poll not found"

\* a 404 whose body carries a server-supplied detail has been handled
C1_Witness ==
    /\ Responded
    /\ response.status_code = 404
    /\ json(response).ok
    /\ json(response).value.t = "obj"
    /\ JTruthy(DictGet(json(response).value.members, "detail"))

\* C2: every response whose status is outside 200-299 makes both operations
\* raise ApiClientError; no value is returned.
C2_NonSuccessStatusRaises ==
    Responded /\ ~Is2xx(response.status_code) => outcome.kind = "ApiClientError"

\* C3: a call ends by returning the parsed body, by ValueError or by
\* ApiClientError, and in no other way, transport failures included.
C3_ThreeOutcomes ==
    pc = "done" => outcome.kind \in {"return", "ValueError", "ApiClientError"}

\* an identifier that is a positive integer / a token that is a non-empty string
PositiveInt(x) == x.t = "int" /\ x.n > 0
NonEmptyStr(x) == x.t = "str" /\ Len(x.s) > 0

\* the arguments the claim calls valid
ArgsValid ==
    /\ PositiveInt(args.poll_id)
    /\ op = "cast_vote" => PositiveInt(args.option_id)
    /\ NonEmptyStr(args.token)

\* C4: ValueError is raised whenever an identifier is not a positive integer or
\* the token is empty, and a request is only built from positive identifiers
\* and a non-empty token.
C4_OnlyPositiveIdsAndNonEmptyToken ==
    /\ pc # "idle" /\ ~ArgsValid => outcome.kind = "ValueError"
    /\ request # NoRequest => ArgsValid

\* C5: a 2xx response with a JSON body is returned parsed and unchanged (the
\* returned value written back as JSON is the body received), and both
\* operations return the same value for the same response.
C5_ReturnsParsedBodyVerbatim ==
    Responded /\ Is2xx(response.status_code) /\ json(response).ok =>
        /\ outcome.kind = "return"
        /\ Serialize(outcome.value) = response.body
        /\ cast_vote_result(response) = outcome
        /\ get_poll_results_result(response) = outcome

\* a 2xx JSON object with several members, "detail" among them, was returned
C5_Witness ==
    /\ Responded
    /\ Is2xx(response.status_code)
    /\ outcome.kind = "return"
    /\ outcome.value.t = "obj"
    /\ Len(outcome.value.members) = 2
    /\ HasKey(outcome.value.members, "detail")

\* C6: a 2xx response whose body is not JSON (an empty body included) raises
\* ApiClientError("Response did not contain valid JSON data").
C6_NonJSONSuccessBodyRaises ==
    Responded /\ Is2xx(response.status_code) /\ ~json(response).ok =>
        /\ outcome.kind = "ApiClientError"
        /\ outcome.value = JNull
        /\ outcome.msg.src = "literal"
        /\ outcome.msg.text = "Response did not contain valid JSON data"

\* a 2xx response with an empty body has been handled
C6_Witness ==
    Responded /\ Is2xx(response.status_code) /\ response.body = <<>>

\* a required argument is falsy, which is what the validation tests
ValidationFails ==
    \/ ~Truthy(args.poll_id)
    \/ op = "cast_vote" /\ ~Truthy(args.option_id)
    \/ ~Truthy(args.token)

\* C7: a call issues no request when validation fails (ValueError) and exactly
\* one when it passes, whatever comes back: no outcome triggers a second one.
C7_AtMostOneRequest ==
    /\ pc = "idle" => requests_sent = 0
    /\ pc = "sent" => requests_sent = 1
    /\ pc = "done" =>
         /\ ValidationFails => outcome.kind = "ValueError" /\ requests_sent = 0
         /\ ~ValidationFails => outcome.kind # "ValueError" /\ requests_sent = 1

\* a call ended on a 5xx answer
C7_Witness ==
    Responded /\ response.status_code >= 500 /\ response.status_code < 600
        /\ op = "get_poll_results"

\* a detail value that is present and not empty
NonEmptyDetail(v) ==
    v \notin {JNull, JStr(""), JNum(0), JBool(FALSE), JArr(<<>>), JObj(<<>>)}

\* the body is a JSON object with a non-empty "detail"
BodyHasDetail(resp) ==
    /\ json(resp).ok
    /\ json(resp).value.t = "obj"
    /\ HasKey(json(resp).value.members, "detail")
    /\ NonEmptyDetail(DictGet(json(resp).value.members, "detail"))

ErrorStatus(c) == 400 <= c /\ c <= 599

\* C8: for an error status (4xx/5xx) other than 401 and 404 the outcome is an
\* ApiClientError whose message is the body's non-empty "detail", and the text
\* of the HTTP error in every other case (body not JSON, not an object, detail
\* missing or empty).
C8_DetailOrHTTPErrorText ==
    Responded /\ ErrorStatus(response.status_code)
              /\ response.status_code \notin {401, 404} =>
        /\ outcome.kind = "ApiClientError"
        /\ outcome.value = JNull
        /\ IF BodyHasDetail(response)
           THEN /\ outcome.msg.src = "detail"
                /\ outcome.msg.detail = DictGet(json(response).value.members, "detail")
           ELSE /\ outcome.msg.src = "http_error"
                /\ outcome.msg.status = response.status_code
                /\ outcome.msg.cls =
                     (IF response.status_code < 500 THEN "Client Error" ELSE "Server Error")
                /\ outcome.msg.url = request.url

\* an error answer whose detail became the message
C8_Witness ==
    /\ Responded
    /\ response.status_code = 422
    /\ outcome.msg.src = "detail"
    /\ outcome.msg.detail.t = "arr"

\* s is t followed by slashes only
SlashesAfter(s, t) ==
    /\ Len(t) <= Len(s)
    /\ SubSeq(s, 1, Len(t)) = t
    /\ \A i \in (Len(t) + 1)..Len(s) : s[i] = "/"

\* base with all its trailing slashes removed
Stripped(base) ==
    CHOOSE t \in {SubSeq(base, 1, k) : k \in 0..Len(base)} :
        SlashesAfter(base, t) /\ (t = <<>> \/ t[Len(t)] # "/")

\* C9: the request is determined by the arguments: method, URL (base URL with
\* all trailing slashes removed, then /polls/<poll_id>/vote or /results), JSON
\* body, Authorization header and a 10-second timeout; base URLs that differ
\* only in trailing slashes give the same URL.
C9_RequestDeterminedByArguments ==
    request # NoRequest =>
        /\ request.timeout = 10
        /\ Header(request, "Authorization") = <<"Bearer ">> \o args.token.s
        /\ op = "cast_vote" =>
             /\ request.method = "POST"
             /\ request.url = Stripped(args.base_url.s) \o <<"/polls/">>
                                \o IntToStr(args.poll_id.n) \o <<"/vote">>
             /\ request.has_json
             /\ Serialize(request.json) =
                  <<P("{"), TStr("option_id"), P(":"), TNum(args.option_id.n), P("}")>>
        /\ op = "get_poll_results" =>
             /\ request.method = "GET"
             /\ request.url = Stripped(args.base_url.s) \o <<"/polls/">>
                                \o IntToStr(args.poll_id.n) \o <<"/results">>
             /\ ~request.has_json
        /\ \A b \in BaseUrls :
             Stripped(b.s) = Stripped(args.base_url.s) =>
                 /\ cast_vote_request([args EXCEPT !.base_url = b]).url
                      = cast_vote_request(args).url
                 /\ get_poll_results_request([args EXCEPT !.base_url = b]).url
                      = get_poll_results_request(args).url

\* a request was built from a base URL ending in two slashes
C9_Witness ==
    /\ request # NoRequest
    /\ Len(args.base_url.s) >= 3
    /\ args.base_url.s[Len(args.base_url.s)] = "/"
    /\ args.base_url.s[Len(args.base_url.s) - 1] = "/"

\* C10: validation reports the first failing check only: poll_id before
\* option_id before token in cast_vote, poll_id before token in
\* get_poll_results, with the same poll_id and token messages in both.
C10_FirstFailureReported ==
    pc = "done" /\ ValidationFails =>
        /\ outcome.kind = "ValueError"
        /\ outcome.msg.src = "literal"
        /\ outcome.msg.text =
             IF ~Truthy(args.poll_id)
             THEN "Parameter 'poll_id' is required and must be a positive integer"
             ELSE IF op = "cast_vote" /\ ~Truthy(args.option_id)
             THEN "Parameter 'option_id' is required and must be a positive integer"
             ELSE "Parameter 'token' (JWT) is required"

\* cast_vote was called with every argument failing its check
C10_Witness ==
    /\ pc = "done"
    /\ op = "cast_vote"
    /\ ~Truthy(args.poll_id)
    /\ ~Truthy(args.option_id)
    /\ ~Truthy(args.token)

====
